---- MODULE Spec2Model ----
(***************************************************************************)
(* Users / Posts / Likes data model and its two access layers (TypeORM    *)
(* repositories and the Prisma client).                                    *)
(*                                                                         *)
(* The store is the relational database described by the schema: the      *)
(* Prisma schema quoted in the comparison document and the TypeORM entity  *)
(* decorators.  Every service method is one call (or, for the TypeORM      *)
(* update, two calls) against that store.                                  *)
(***************************************************************************)
EXTENDS Integers, FiniteSets, Sequences, TLC

VARIABLES db, nextId, now, created, last, pending

vars == <<db, nextId, now, created, last, pending>>

(***************************************************************************)
(* Bounds of the model.                                                    *)
(***************************************************************************)
MaxUsers == 2        \* User ids handed out in one run
MaxPosts == 1        \* Post ids handed out in one run
MaxLikes == 2        \* Like ids handed out in one run
MaxTime  == 1        \* clock readings 0..MaxTime

Names    == {"Alice", "X"}
Emails   == {"a@x.com", "b@x.com"}
Titles   == {"Hi", "Yo"}
Contents == {"World"}

(***************************************************************************)
(* Schema.                                                                 *)
(***************************************************************************)
Entities == {"User", "Post", "Like"}

\* The access component of Post, which follows the pattern shared by the
\* three access components.
PostsService == {"Post"}

\* The access components: one per entity type.
Services == {"User", "Like"} \cup PostsService

\* The absent result of findOne / findUnique (null).
NULL == [id |-> 0]

\* @PrimaryGeneratedColumn() / @id @default(autoincrement()): the sequence
\* of an entity type starts at 1.
FirstId == 1

MaxId(E) ==
    CASE E = "User" -> MaxUsers
      [] E = "Post" -> MaxPosts
      [] E = "Like" -> MaxLikes

\* Faulty variant: the unique flag on User.email is missing.
UniqueKeysNoEmail(E) ==
    CASE E = "User" -> {}
      [] E = "Post" -> {}
      [] E = "Like" -> {{"userId", "postId"}}

\* The uniqueness constraints: each is a set of columns.
UniqueKeys(E) ==
    CASE E = "User" -> {{"email"}}
      [] E = "Post" -> {}
      [] E = "Like" -> {{"userId", "postId"}}

\* Faulty variant: Like.postId is a plain column, not a relation to Post.
ForeignKeysUserOnly(E) ==
    CASE E = "User" -> {}
      [] E = "Post" -> {[field |-> "authorId", ref |-> "User"]}
      [] E = "Like" -> {[field |-> "userId", ref |-> "User"]}

\* The foreign keys; every one of them is declared onDelete: Cascade.
ForeignKeys(E) ==
    CASE E = "User" -> {}
      [] E = "Post" -> {[field |-> "authorId", ref |-> "User"]}
      [] E = "Like" -> {[field |-> "userId", ref |-> "User"],
                        [field |-> "postId", ref |-> "Post"]}

\* @UpdateDateColumn() / @updatedAt: User and Post only.
HasUpdatedAt(E) == E \in {"User", "Post"}

(***************************************************************************)
(* Inputs of the service methods.                                          *)
(***************************************************************************)
Ids(E) == 1..MaxId(E)

\* CreateUserDto (name, email), CreatePostDto (title, content, authorId),
\* CreateLikeDto (userId, postId).
CreateDtos(E) ==
    CASE E = "User" -> [name : Names, email : Emails]
      [] E = "Post" -> [title : Titles, content : Contents, authorId : Ids("User")]
      [] E = "Like" -> [userId : Ids("User"), postId : Ids("Post")]

\* The fields a DTO of the entity type can carry.
DtoFields(E) ==
    CASE E = "User" -> {"name", "email"}
      [] E = "Post" -> {"title", "content", "authorId"}
      [] E = "Like" -> {"userId", "postId"}

\* UpdateDtos extend PartialType: every field of the create DTO is optional.
UpdateDtos(E) ==
    {[f \in D |-> c[f]] : c \in CreateDtos(E), D \in SUBSET DtoFields(E)}

(***************************************************************************)
(* The persistence engine: what the store does with one statement.         *)
(***************************************************************************)
Exists(d, E, id) == \E r \in d[E] : r.id = id

Row(d, E, id) == CHOOSE r \in d[E] : r.id = id

\* SELECT ... WHERE id = ?: the row, or null.
FindById(d, E, id) == IF Exists(d, E, id) THEN Row(d, E, id) ELSE NULL

\* Another row already holds the values of one of the unique keys.
UniqueViolated(d, E, row) ==
    \E k \in UniqueKeys(E) :
        \E r \in d[E] : r.id # row.id /\ \A f \in k : r[f] = row[f]

\* A foreign key column names no row of the referenced table.
ForeignKeyViolated(d, E, row) ==
    \E fk \in ForeignKeys(E) : ~Exists(d, fk.ref, row[fk.field])

\* Faulty variant: foreign keys are not enforced (as in a store that has them
\* switched off).
ConstraintErrorUniqueOnly(d, E, row) ==
    IF UniqueViolated(d, E, row) THEN "UniquenessViolation" ELSE "ok"

ConstraintError(d, E, row) ==
    IF UniqueViolated(d, E, row) THEN "UniquenessViolation"
    ELSE IF ForeignKeyViolated(d, E, row) THEN "ForeignKeyViolation"
    ELSE "ok"

\* The row of an INSERT: generated id, createdAt = now, updatedAt = now.
NewRow(E, id, data, t) ==
    IF HasUpdatedAt(E)
    THEN data @@ [id |-> id, createdAt |-> t, updatedAt |-> t]
    ELSE data @@ [id |-> id, createdAt |-> t]

\* Faulty variant: the id is one more than the largest id in the table (a rowid
\* without AUTOINCREMENT), so the id of a deleted last row comes back.
GeneratedIdMaxPlusOne(d, E, n) ==
    IF d[E] = {} THEN 1
    ELSE (CHOOSE m \in {r.id : r \in d[E]} : \A k \in {r.id : r \in d[E]} : k <= m) + 1

\* The id of the next row: the next value of the table's sequence (n),
\* whatever rows the table holds.
GeneratedId(d, E, n) == n

\* INSERT of one row.
InsertOne(d, E, n, data, t) ==
    LET row == NewRow(E, GeneratedId(d, E, n), data, t)
        err == ConstraintError(d, E, row)
    IN  [status |-> err,
         db     |-> IF err = "ok" THEN [d EXCEPT ![E] = @ \cup {row}] ELSE d,
         value  |-> IF err = "ok" THEN row ELSE NULL]

\* Faulty variant: the UPDATE stamps createdAt as well as updatedAt.
MergeStampingCreatedAt(E, old, dto, t) ==
    [f \in DOMAIN old |->
        IF f \in DOMAIN dto THEN dto[f]
        ELSE IF f \in {"updatedAt", "createdAt"} /\ HasUpdatedAt(E) THEN t
        ELSE old[f]]

\* The row of an UPDATE ... SET: the columns of the DTO, and updatedAt.
Merge(E, old, dto, t) ==
    [f \in DOMAIN old |->
        IF f \in DOMAIN dto THEN dto[f]
        ELSE IF f = "updatedAt" /\ HasUpdatedAt(E) THEN t
        ELSE old[f]]

\* Faulty variant: the UPDATE is not checked against the constraints.
UpdateByIdUnchecked(d, E, id, dto, t) ==
    IF ~Exists(d, E, id)
    THEN [status |-> "ok", affected |-> 0, db |-> d, value |-> NULL]
    ELSE LET old == Row(d, E, id)
             new == Merge(E, old, dto, t)
         IN  [status |-> "ok", affected |-> 1,
              db |-> [d EXCEPT ![E] = (@ \ {old}) \cup {new}],
              value |-> new]

\* UPDATE ... WHERE id = ?: no such row is a statement that affects 0 rows.
UpdateById(d, E, id, dto, t) ==
    IF ~Exists(d, E, id)
    THEN [status |-> "ok", affected |-> 0, db |-> d, value |-> NULL]
    ELSE LET old == Row(d, E, id)
             new == Merge(E, old, dto, t)
             err == ConstraintError(d, E, new)
         IN  IF err = "ok"
             THEN [status |-> "ok", affected |-> 1,
                   db |-> [d EXCEPT ![E] = (@ \ {old}) \cup {new}],
                   value |-> new]
             ELSE [status |-> err, affected |-> 0, db |-> d, value |-> NULL]

\* Faulty variant: the cascade stops after one level; the Likes on the Posts of a
\* deleted User stay.
DeleteByIdOneLevel(d, E, id) ==
    LET delUsers == IF E = "User" THEN {id} ELSE {}
        delPosts == {p.id : p \in {q \in d["Post"] : q.authorId \in delUsers}}
                        \cup (IF E = "Post" THEN {id} ELSE {})
        delLikes == {l.id : l \in {m \in d["Like"] :
                                      \/ m.userId \in delUsers
                                      \/ (E = "Post" /\ m.postId = id)}}
                        \cup (IF E = "Like" THEN {id} ELSE {})
    IN  [status   |-> "ok",
         affected |-> IF Exists(d, E, id) THEN 1 ELSE 0,
         db       |-> [User |-> {u \in d["User"] : u.id \notin delUsers},
                       Post |-> {p \in d["Post"] : p.id \notin delPosts},
                       Like |-> {l \in d["Like"] : l.id \notin delLikes}],
         value    |-> FindById(d, E, id)]

\* DELETE ... WHERE id = ?, with ON DELETE CASCADE along every foreign key.
DeleteById(d, E, id) ==
    LET delUsers == IF E = "User" THEN {id} ELSE {}
        delPosts == {p.id : p \in {q \in d["Post"] : q.authorId \in delUsers}}
                        \cup (IF E = "Post" THEN {id} ELSE {})
        delLikes == {l.id : l \in {m \in d["Like"] :
                                      m.userId \in delUsers \/ m.postId \in delPosts}}
                        \cup (IF E = "Like" THEN {id} ELSE {})
    IN  [status   |-> "ok",
         affected |-> IF Exists(d, E, id) THEN 1 ELSE 0,
         db       |-> [User |-> {u \in d["User"] : u.id \notin delUsers},
                       Post |-> {p \in d["Post"] : p.id \notin delPosts},
                       Like |-> {l \in d["Like"] : l.id \notin delLikes}],
         value    |-> FindById(d, E, id)]

(***************************************************************************)
(* The calls the service methods make.                                     *)
(***************************************************************************)
\* repository.save(repository.create(dto)) and prisma.<model>.create({data}):
\* one INSERT; a constraint violation is thrown to the caller.
SaveNew(d, E, n, data, t) == InsertOne(d, E, n, data, t)

\* repository.update(id, dto): one UPDATE by primary key.  The query builder
\* refuses an empty SET clause (UpdateValuesMissingError); @UpdateDateColumn
\* always contributes updatedAt, so only Like can have one.  A statement
\* that matches no row is not an error.
RepositoryUpdate(d, E, id, dto, t) ==
    IF DOMAIN dto = {} /\ ~HasUpdatedAt(E)
    THEN [status |-> "UpdateValuesMissing", affected |-> 0, db |-> d, value |-> NULL]
    ELSE UpdateById(d, E, id, dto, t)

\* repository.delete(id): one DELETE by primary key; 0 affected rows is not
\* an error, and the DeleteResult is dropped by the service.
RepositoryDelete(d, E, id) ==
    [DeleteById(d, E, id) EXCEPT !.value = NULL]

\* prisma.<model>.update({where: {id}, data}): "record to update not found"
\* when no row has the id; otherwise the updated row.
ClientUpdate(d, E, id, dto, t) ==
    IF ~Exists(d, E, id)
    THEN [status |-> "NotFound", affected |-> 0, db |-> d, value |-> NULL]
    ELSE UpdateById(d, E, id, dto, t)

\* Faulty variant: the delete is a deleteMany, which accepts that no row matches.
ClientDeleteMany(d, E, id) == DeleteById(d, E, id)

\* prisma.<model>.delete({where: {id}}): "record to delete does not exist"
\* when no row has the id; otherwise the deleted row.
ClientDelete(d, E, id) ==
    IF ~Exists(d, E, id)
    THEN [status |-> "NotFound", affected |-> 0, db |-> d, value |-> NULL]
    ELSE DeleteById(d, E, id)

(***************************************************************************)
(* State.                                                                  *)
(*   db       the tables: a set of rows per entity type                     *)
(*   nextId   the next value of each table's id sequence                    *)
(*   now      the store's clock                                             *)
(*   created  per entity type, the ids returned by create, in call order    *)
(*   last     the service call that completed last: the method, the entity  *)
(*            type, how it ended, the rows its write affected and the       *)
(*            number of entities it returned (0 for null and for void)      *)
(*   pending  a TypeORM update between its UPDATE and its findOne           *)
(***************************************************************************)
NoCall == [entity |-> "none"]

Call(op, E, status, affected, returned) ==
    [op |-> op, entity |-> E, status |-> status,
     affected |-> affected, returned |-> returned]

Returned(value) == IF value = NULL THEN 0 ELSE 1

Init ==
    /\ db = [E \in Entities |-> {}]
    /\ nextId = [E \in Entities |-> FirstId]
    /\ now = 0
    /\ created = [E \in Entities |-> <<>>]
    /\ last = Call("none", "none", "ok", 0, 0)
    /\ pending = NoCall

\* Time passes.
Tick ==
    /\ now < MaxTime
    /\ now' = now + 1
    /\ UNCHANGED <<db, nextId, created, last, pending>>

\* create(createDto), the same single INSERT in both variants; the
\* persisted row is returned.
CreateOne(E, data) ==
    /\ nextId[E] <= MaxId(E)
    /\ LET o == SaveNew(db, E, nextId[E], data, now)
       IN  /\ db' = o.db
           /\ last' = Call("create", E, o.status, Returned(o.value), Returned(o.value))
           /\ IF o.status = "ok"
              THEN /\ nextId' = [nextId EXCEPT ![E] = @ + 1]
                   /\ created' = [created EXCEPT ![E] = Append(@, o.value.id)]
              ELSE UNCHANGED <<nextId, created>>
    /\ UNCHANGED <<now, pending>>

Create == \E E \in Services : \E data \in CreateDtos(E) : CreateOne(E, data)

\* findAll(): every row of the table.
FindAll ==
    \E E \in Services :
        /\ last' = Call("findAll", E, "ok", 0, Cardinality(db[E]))
        /\ UNCHANGED <<db, nextId, now, created, pending>>

\* findOne(id): the row, or null.
FindOne ==
    \E E \in Services : \E id \in Ids(E) :
        /\ last' = Call("findOne", E, "ok", 0, Returned(FindById(db, E, id)))
        /\ UNCHANGED <<db, nextId, now, created, pending>>

\* Prisma update(id, dto): one call, which returns the updated row.
PrismaUpdate ==
    \E E \in Services : \E id \in Ids(E) : \E dto \in UpdateDtos(E) :
        LET o == ClientUpdate(db, E, id, dto, now)
        IN  /\ db' = o.db
            /\ last' = Call("update", E, o.status, o.affected, Returned(o.value))
            /\ UNCHANGED <<nextId, now, created, pending>>

\* Prisma remove(id): one call, which returns the deleted row.
PrismaRemove ==
    \E E \in Services : \E id \in Ids(E) :
        LET o == ClientDelete(db, E, id)
        IN  /\ db' = o.db
            /\ last' = Call("remove", E, o.status, o.affected, Returned(o.value))
            /\ UNCHANGED <<nextId, now, created, pending>>

\* TypeORM remove(id): one call, nothing returned.
TypeormRemove ==
    \E E \in Services : \E id \in Ids(E) :
        LET o == RepositoryDelete(db, E, id)
        IN  /\ db' = o.db
            /\ last' = Call("remove", E, o.status, o.affected, Returned(o.value))
            /\ UNCHANGED <<nextId, now, created, pending>>

\* TypeORM update(id, dto) when no other call runs between its two
\* statements: await repository.update(id, dto); return this.findOne(id).
TypeormUpdate ==
    \E E \in Services : \E id \in Ids(E) : \E dto \in UpdateDtos(E) :
        LET o == RepositoryUpdate(db, E, id, dto, now)
        IN  /\ db' = o.db
            /\ last' = Call("update", E, o.status, o.affected,
                            IF o.status = "ok" THEN Returned(FindById(o.db, E, id)) ELSE 0)
            /\ UNCHANGED <<nextId, now, created, pending>>

\* TypeORM update(id, dto), first statement: await repository.update(id, dto).
\* An error ends the call; otherwise the call goes on to its findOne.
TypeormUpdateWrite ==
    /\ pending = NoCall
    /\ \E E \in Services : \E id \in Ids(E) : \E dto \in UpdateDtos(E) :
        LET o == RepositoryUpdate(db, E, id, dto, now)
        IN  /\ db' = o.db
            /\ IF o.status = "ok"
               THEN /\ pending' = [entity |-> E, id |-> id, affected |-> o.affected]
                    /\ last' = last
               ELSE /\ pending' = pending
                    /\ last' = Call("update", E, o.status, 0, 0)
            /\ UNCHANGED <<nextId, now, created>>

\* TypeORM update(id, dto), second statement: return this.findOne(id).
TypeormUpdateReturn ==
    /\ pending # NoCall
    /\ last' = Call("update", pending.entity, "ok", pending.affected,
                    Returned(FindById(db, pending.entity, pending.id)))
    /\ pending' = NoCall
    /\ UNCHANGED <<db, nextId, now, created>>

\* Calls that run one after the other, all at one reading of the clock.
Next ==
    \/ Create
    \/ FindAll
    \/ FindOne
    \/ TypeormUpdate
    \/ PrismaUpdate
    \/ TypeormRemove
    \/ PrismaRemove

Spec == Init /\ [][Next]_vars

\* Creates and updates that run one after the other while time passes.
NextTimed ==
    \/ Tick
    \/ Create
    \/ TypeormUpdate
    \/ PrismaUpdate

Timed == Init /\ [][NextTimed]_vars

\* Calls whose statements interleave: another call may run between the
\* UPDATE and the findOne of a TypeORM update.
NextInterleaved ==
    \/ Create
    \/ TypeormUpdateWrite
    \/ TypeormUpdateReturn
    \/ PrismaUpdate
    \/ TypeormRemove
    \/ PrismaRemove

Interleaved == Init /\ [][NextInterleaved]_vars

(***************************************************************************)
(* Properties.                                                             *)
(***************************************************************************)
IdsOf(rows) == {r.id : r \in rows}

Range(seq) == {seq[i] : i \in 1..Len(seq)}

\* What update(id, dto) does in each variant when nothing runs in between:
\* the status, the store afterwards and the entity returned.
TypeormUpdateResult(E, id, dto) ==
    LET o == RepositoryUpdate(db, E, id, dto, now)
    IN  [status |-> o.status, db |-> o.db,
         value |-> IF o.status = "ok" THEN FindById(o.db, E, id) ELSE NULL]

PrismaUpdateResult(E, id, dto) ==
    LET o == ClientUpdate(db, E, id, dto, now)
    IN  [status |-> o.status, db |-> o.db, value |-> o.value]

UpdateResults(E, id, dto) ==
    {TypeormUpdateResult(E, id, dto), PrismaUpdateResult(E, id, dto)}

\* C1: no two existing Users have the same email; a create, or an update
\* that sets email, which would make two Users share an email fails with
\* UniquenessViolation and leaves the store exactly as it was.
EmailUniqueness ==
    /\ \A u1, u2 \in db["User"] : u1.email = u2.email => u1 = u2
    /\ \A data \in CreateDtos("User") :
          (\E u \in db["User"] : u.email = data.email) =>
              LET o == SaveNew(db, "User", nextId["User"], data, now)
              IN  o.status = "UniquenessViolation" /\ o.db = db
    /\ \A id \in Ids("User") : \A dto \in UpdateDtos("User") :
          ( /\ "email" \in DOMAIN dto
            /\ Exists(db, "User", id)
            /\ \E u \in db["User"] : u.id # id /\ u.email = dto["email"] ) =>
              \A o \in UpdateResults("User", id, dto) :
                  o.status = "UniquenessViolation" /\ o.db = db

\* Two Users exist and an update that would have given one the other's
\* email has just failed.
EmailUniquenessWitness ==
    /\ Cardinality(db["User"]) = 2
    /\ last = Call("update", "User", "UniquenessViolation", 0, 0)

\* C2: create with the (userId, postId) pair of an existing Like fails with
\* UniquenessViolation and adds no row; at most one Like exists for any
\* pair, also after update has overwritten userId or postId of a Like.
LikePairUniqueness ==
    /\ \A l1, l2 \in db["Like"] :
          (l1.userId = l2.userId /\ l1.postId = l2.postId) => l1 = l2
    /\ \A data \in CreateDtos("Like") :
          (\E l \in db["Like"] : l.userId = data.userId /\ l.postId = data.postId) =>
              LET o == SaveNew(db, "Like", nextId["Like"], data, now)
              IN  o.status = "UniquenessViolation" /\ o.db = db

\* A Like exists and a second create with its pair has just failed.
LikePairUniquenessWitness ==
    /\ Cardinality(db["Like"]) = 1
    /\ last = Call("create", "Like", "UniquenessViolation", 0, 0)

\* C3: the step that removes User u removes every Post with authorId = u,
\* every Like with userId = u and every Like on one of those Posts;
\* findOne on any of those ids then returns not-found.
CascadeOnUserRemove ==
    [][\A u \in db["User"] :
          ~Exists(db', "User", u.id) =>
              LET posts == {p \in db["Post"] : p.authorId = u.id}
                  likes == {l \in db["Like"] :
                               l.userId = u.id \/ l.postId \in IdsOf(posts)}
              IN  /\ \A p \in posts : FindById(db', "Post", p.id) = NULL
                  /\ \A l \in likes : FindById(db', "Like", l.id) = NULL]_vars

\* A User has just been removed; the other User is still there, but the
\* Post and both Likes that had been created, one of them the other
\* User's, are gone.
CascadeOnUserRemoveWitness ==
    /\ last.op = "remove" /\ last.entity = "User" /\ last.affected = 1
    /\ Cardinality(db["User"]) = 1
    /\ Len(created["Post"]) = 1 /\ db["Post"] = {}
    /\ Len(created["Like"]) = 2 /\ db["Like"] = {}

\* C4: every Post's authorId is the id of an existing User, and every
\* Like's userId and postId are the ids of an existing User and an
\* existing Post.
ReferentialIntegrity ==
    /\ \A p \in db["Post"] : Exists(db, "User", p.authorId)
    /\ \A l \in db["Like"] :
          Exists(db, "User", l.userId) /\ Exists(db, "Post", l.postId)

\* A User who had liked a Post has just been removed, and a Like of the
\* remaining User is still there.
ReferentialIntegrityWitness ==
    /\ last.op = "remove" /\ last.entity = "User" /\ last.affected = 1
    /\ Len(created["Like"]) = 2
    /\ Cardinality(db["Like"]) = 1

\* C5: a create whose foreign key names no existing row fails with
\* ForeignKeyViolation and adds no row.
ForeignKeyOnCreate ==
    /\ \A data \in CreateDtos("Post") :
          ~Exists(db, "User", data.authorId) =>
              LET o == SaveNew(db, "Post", nextId["Post"], data, now)
              IN  o.status = "ForeignKeyViolation" /\ o.db = db
    /\ \A data \in CreateDtos("Like") :
          (~Exists(db, "User", data.userId) \/ ~Exists(db, "Post", data.postId)) =>
              LET o == SaveNew(db, "Like", nextId["Like"], data, now)
              IN  o.status = "ForeignKeyViolation" /\ o.db = db

\* Every User id exists, the Post that had been created was deleted, and a
\* Like create (which can only have named that Post) has just failed.
ForeignKeyOnCreateWitness ==
    /\ last = Call("create", "Like", "ForeignKeyViolation", 0, 0)
    /\ IdsOf(db["User"]) = Ids("User")
    /\ created["Post"] # <<>> /\ db["Post"] = {}

UpdateFrame ==
    \A E \in Entities : \A id \in Ids(E) : \A dto \in UpdateDtos(E) :
        Exists(db, E, id) =>
            \A o \in UpdateResults(E, id, dto) :
                o.status = "ok" =>
                    LET old == Row(db, E, id)
                    IN  /\ Exists(o.db, E, id)
                        /\ o.value = Row(o.db, E, id)
                        /\ DOMAIN o.value = DOMAIN old
                        /\ \A f \in DOMAIN old \ (DOMAIN dto \cup {"updatedAt"}) :
                              o.value[f] = old[f]
                        /\ o.value.id = old.id
                        /\ o.value.createdAt = old.createdAt
                        /\ o.db[E] \ {o.value} = db[E] \ {old}
                        /\ \A F \in Entities \ {E} : o.db[F] = db[F]

\* An update has just succeeded on a User created at an earlier reading of
\* the clock: updatedAt moved, createdAt did not.
UpdateFrameWitness ==
    /\ last = Call("update", "User", "ok", 1, 1)
    /\ \E u \in db["User"] : u.createdAt = 0 /\ u.updatedAt = now /\ now > 0

\* C8: the entity returned by an update whose own write changed the row is
\* that row: it exists, whatever other calls do meanwhile.
UpdateReturnsItsWrite ==
    (last.op = "update" /\ last.status = "ok" /\ last.affected = 1)
        => last.returned = 1

\* C9: update(id, dto) on an id with no row creates and modifies nothing
\* (Prisma: NotFound; TypeORM: no error, null returned); on an existing id
\* the two variants leave the same store and return the same entity.
UpdateVariantsAgree ==
    \A E \in Entities : \A id \in Ids(E) : \A dto \in UpdateDtos(E) :
        LET t == TypeormUpdateResult(E, id, dto)
            p == PrismaUpdateResult(E, id, dto)
        IN  IF Exists(db, E, id)
            THEN t.status = p.status /\ t.db = p.db /\ t.value = p.value
            ELSE /\ p.status = "NotFound" /\ p.db = db
                 /\ t.status = "ok" /\ t.value = NULL /\ t.db = db

\* C10: per entity type the ids returned by create are strictly increasing
\* in creation order (the first User gets id 1), so they are pairwise
\* distinct and a deleted row's id is never handed out again; the rows of
\* a table have pairwise distinct ids, and update changes no id.
IdsMonotone ==
    /\ \A E \in Entities :
          /\ \A i, j \in 1..Len(created[E]) : i < j => created[E][i] < created[E][j]
          /\ IdsOf(db[E]) \subseteq Range(created[E])
          /\ Cardinality(IdsOf(db[E])) = Cardinality(db[E])
          /\ \A id \in Ids(E) : \A dto \in UpdateDtos(E) :
                \A o \in UpdateResults(E, id, dto) : IdsOf(o.db[E]) = IdsOf(db[E])
    /\ created["User"] # <<>> => created["User"][1] = 1

\* The first User was removed and a second one has just been created: it
\* got id 2, not the freed id 1.
IdsMonotoneWitness ==
    /\ last = Call("create", "User", "ok", 1, 1)
    /\ created["User"] = <<1, 2>>
    /\ IdsOf(db["User"]) = {2}

====
